---- MODULE Spec2Model ----
(***************************************************************************)
(* git-subcopy: a model of src/src/lib.rs (App) and of the commands of      *)
(* src/src/main.rs.                                                         *)
(*                                                                          *)
(* A directory is a function from relative paths to nodes; the root (the   *)
(* empty path) is part of it, so a directory that does not exist is the    *)
(* function whose root is NoNode.  The upstream repository is one tree at  *)
(* the requested revision, a function from paths to git objects.           *)
(***************************************************************************)
EXTENDS Naturals, Sequences, FiniteSets, TLC

\* File contents are 1..MaxContent.
MaxContent == 2
\* An interactive subprocess edits the scratch tree at most MaxEdits times.
MaxEdits == 1

VARIABLES
    pc,         \* position of the running call
    upstream,   \* the upstream tree at the revision: UpPaths -> Object
    source_path,\* the upstream path argument
    dest,       \* the directory at the destination argument (local_path)
    dest0,      \* dest as it was before the call (history)
    tmp,        \* the scratch directory of with_repo (TempDir), without .git
    store,      \* .gitcopies: normalised key -> value
    store0,     \* store as it was before the call (history)
    registered, \* what register wrote since the start: key path -> record (history)
    walk,       \* extract: the entries of the tree walk not yet visited
    written,    \* extract: the relative paths written so far (history)
    skipped,    \* extract: the entries left unvisited by an abort (history)
    result,     \* what the call returned
    opt,        \* main: the parsed command line (Opt)
    conf,       \* main: the record get returned (SubcopyConfig)
    cache,      \* the cache directory: mirror path -> what is there
    remote,     \* whether the scratch repository has a remote "upstream"
    invoked,    \* with_repo: the callback was called (history)
    copied,     \* with_repo: the copy-out loop was entered (history)
    edited,     \* the callback changed the scratch working tree (history)
    exit_status \* how the interactive subprocess exited (history)

storeVars == <<store, store0, registered>>
walkVars == <<walk, written, skipped>>
mainVars == <<opt, conf, cache, remote, invoked, copied, edited, exit_status>>
vars == <<pc, upstream, source_path, dest, dest0, tmp, storeVars, walkVars, result, mainVars>>

----------------------------------------------------------------------------
\* Directories

Contents == 1..MaxContent

NoNode == [kind |-> "none", data |-> 0]
DirNode == [kind |-> "dir", data |-> 0]
FileNode(c) == [kind |-> "file", data |-> c]
Node == {NoNode, DirNode} \cup {FileNode(c) : c \in Contents}

Root == << >>
\* Relative paths below a directory; only "d" has a path below it.
RelPaths == {<<"a">>, <<"d">>, <<"d", "a">>}
FsPaths == {Root} \cup RelPaths

Parent(p) == SubSeq(p, 1, Len(p) - 1)
IsPrefix(p, q) == Len(p) <= Len(q) /\ SubSeq(q, 1, Len(p)) = p

\* Every present path has a directory as its parent.
WellFormed(fs) ==
    \A p \in RelPaths : fs[p] # NoNode => fs[Parent(p)] = DirNode

AllFs == {fs \in [FsPaths -> Node] : WellFormed(fs) /\ fs[Root] \in {NoNode, DirNode}}
NoDir == [p \in FsPaths |-> NoNode]
EmptyDir == [p \in FsPaths |-> IF p = Root THEN DirNode ELSE NoNode]

\* The relative paths present below the root.
PathsOf(fs) == {p \in RelPaths : fs[p] # NoNode}

\* fs::write(path, content) and the destination side of fs::copy(from, path):
\* the parent must be a directory and the path must not be one.
WriteFile(fs, p, c) ==
    IF p # Root /\ fs[Parent(p)] = DirNode /\ fs[p] # DirNode
    THEN [ok |-> TRUE, fs |-> [fs EXCEPT ![p] = FileNode(c)]]
    ELSE [ok |-> FALSE, fs |-> fs]

\* fs::create_dir_all(path): creates the path and its missing ancestors; fails
\* when the path or an ancestor is a file.
CreateDirAll(fs, p) ==
    LET chain == {q \in FsPaths : IsPrefix(q, p)}
    IN  IF \E q \in chain : fs[q].kind = "file"
        THEN [ok |-> FALSE, fs |-> fs]
        ELSE [ok |-> TRUE, fs |-> [q \in FsPaths |-> IF q \in chain THEN DirNode ELSE fs[q]]]

----------------------------------------------------------------------------
\* The upstream tree

NoObject == [kind |-> "none", data |-> 0]
TreeObject == [kind |-> "tree", data |-> 0]
Blob(c) == [kind |-> "blob", data |-> c]
Object == {NoObject, TreeObject} \cup {Blob(c) : c \in Contents}

UpPaths == {<<"lib">>, <<"lib", "a">>, <<"lib", "d">>, <<"lib", "d", "a">>, <<"x">>}

\* An entry exists only inside a tree; "lib" is a tree and "x" a blob outside
\* it; a path that can hold no entry is not a tree.
UpstreamTrees ==
    {t \in [UpPaths -> Object] :
        /\ t[<<"lib">>] = TreeObject
        /\ t[<<"x">>] = Blob(1)
        /\ t[<<"lib", "a">>] # TreeObject
        /\ t[<<"lib", "d", "a">>] # TreeObject
        /\ \A p \in UpPaths : (Len(p) > 1 /\ t[p] # NoObject) => t[Parent(p)] = TreeObject}

\* tree.get_path(source_path): the entry at the path, if any.
GetPath(tree, path) == IF path \in UpPaths THEN tree[path] ELSE NoObject

\* The entries below `base`, as paths relative to it.
SubtreePaths(tree, base) ==
    {p \in RelPaths : base \o p \in UpPaths /\ tree[base \o p] # NoObject}

\* Git's order of a tree's entries, parents first (TreeWalkMode::PreOrder).
PreOrderAll == << <<"a">>, <<"d">>, <<"d", "a">> >>
SelectPaths(S) == SelectSeq(PreOrderAll, LAMBDA p : p \in S)
TreeWalk(tree, base) == SelectPaths(SubtreePaths(tree, base))

----------------------------------------------------------------------------
\* App::fetch: the mirror cache

\* The URLs the model fetches, each one string; two of them differ only by a
\* trailing slash.  Their lengths cover every remainder of a base64 group.
CacheUrls == {<<"u">>, <<"u1">>, <<"u2">>, <<"u1/">>, <<"u1/a">>}

\* url.as_ref(): the bytes of the string (ASCII).
AsBytes(url) ==
    CASE url = <<"u">> -> <<117>>
      [] url = <<"u1">> -> <<117, 49>>
      [] url = <<"u2">> -> <<117, 50>>
      [] url = <<"u1/">> -> <<117, 49, 47>>
      [] url = <<"u1/a">> -> <<117, 49, 47, 97>>

\* base64: three bytes make four 6-bit digits; a last group of one or two
\* bytes makes two or three digits, the missing bits being zero.
RECURSIVE Sextets(_)
Sextets(b) ==
    IF Len(b) = 0 THEN << >>
    ELSE IF Len(b) = 1 THEN <<b[1] \div 4, (b[1] % 4) * 16>>
    ELSE IF Len(b) = 2
    THEN <<b[1] \div 4, (b[1] % 4) * 16 + b[2] \div 16, (b[2] % 16) * 4>>
    ELSE <<b[1] \div 4, (b[1] % 4) * 16 + b[2] \div 16,
           (b[2] % 16) * 4 + b[3] \div 64, b[3] % 64>> \o Sextets(SubSeq(b, 4, Len(b)))

\* The digits of base64::URL_SAFE.
Alphabet ==
    <<"A", "B", "C", "D", "E", "F", "G", "H", "I", "J", "K", "L", "M",
      "N", "O", "P", "Q", "R", "S", "T", "U", "V", "W", "X", "Y", "Z",
      "a", "b", "c", "d", "e", "f", "g", "h", "i", "j", "k", "l", "m",
      "n", "o", "p", "q", "r", "s", "t", "u", "v", "w", "x", "y", "z",
      "0", "1", "2", "3", "4", "5", "6", "7", "8", "9", "-", "_">>

\* base64::encode_config(bytes, URL_SAFE_NO_PAD): the digits, without padding.
encode_configWholeGroups(bytes) ==
    LET s == Sextets(SubSeq(bytes, 1, 3 * (Len(bytes) \div 3)))
    IN  [i \in 1..Len(s) |-> Alphabet[s[i] + 1]]
encode_config(bytes) ==
    LET s == Sextets(bytes)
    IN  [i \in 1..Len(s) |-> Alphabet[s[i] + 1]]

\* lib.rs:49: self.cache_dir.join(the encoded URL), one component in cache_dir.
MirrorPath(url) == <<"cache_dir", encode_config(AsBytes(url))>>
CachePaths == {MirrorPath(url) : url \in CacheUrls}

\* What is at a mirror path: nothing, a bare repository, or something that is
\* not a repository (what an interrupted clone left, for one).  `urls` is the
\* set of URLs whose fetch has touched the path (history).
MirrorStates == {"absent", "mirror", "corrupt"}
NoMirrors == [p \in CachePaths |-> [state |-> "absent", urls |-> {}]]

\* App::fetch.  A path that exists is opened as a bare repository and
\* refreshed from an anonymous remote; a missing one is cloned.  `net` is
\* whether the transfer succeeds; a failing clone leaves nothing at the path.
\* `exists` and `cloned` report the branch taken.
fetch(mirrors, url, net) ==
    LET path == MirrorPath(url)
        exists == mirrors[path].state # "absent"
        touched == [mirrors EXCEPT ![path].urls = @ \cup {url}]
    IN  IF exists
        THEN IF mirrors[path].state = "corrupt"
             THEN [ok |-> FALSE, err |-> "failed to open cached bare repository",
                   cache |-> touched, exists |-> TRUE, cloned |-> FALSE]
             ELSE IF net
             THEN [ok |-> TRUE, err |-> "none",
                   cache |-> touched, exists |-> TRUE, cloned |-> FALSE]
             ELSE [ok |-> FALSE, err |-> "failed to fetch from anonymous remote",
                   cache |-> touched, exists |-> TRUE, cloned |-> FALSE]
        ELSE IF net
             THEN [ok |-> TRUE, err |-> "none",
                   cache |-> [touched EXCEPT ![path].state = "mirror"],
                   exists |-> FALSE, cloned |-> TRUE]
             ELSE [ok |-> FALSE, err |-> "failed to clone repository",
                   cache |-> touched, exists |-> FALSE, cloned |-> TRUE]

----------------------------------------------------------------------------
\* The provenance store: .gitcopies, a git configuration file

Ok == [ok |-> TRUE, err |-> "none"]
Err(e) == [ok |-> FALSE, err |-> e]

Last(path) == path[Len(path)]

\* A string that is cut at its dots is the sequence of its dot-separated
\* segments; every other string and path is a sequence of components.
Unset == <<"<unset>">>
Urls == {<<"u1">>, <<"u2">>}
Revs == {<<"r1">>, <<"r2">>}
\* Upstream paths as register receives them; the second starts with "~".
SourceValues == {<<"lib", "util">>, <<"~", "lib">>}

\* Destination arguments and the path each resolves to, relative to the
\* working directory and cut at its dots: a nested path (in two spellings), a
\* path with a dot, a path outside the working directory.
DestArgs == {"vendor/util", "./vendor/util", "w.x", "../out"}
Outside == <<"<outside>">>
Resolve(d) ==
    CASE d = "vendor/util" -> <<"vendor/util">>
      [] d = "./vendor/util" -> <<"vendor/util">>
      [] d = "w.x" -> <<"w", "x">>
      [] OTHER -> Outside
Rels == {Resolve(d) : d \in DestArgs} \ {Outside}

\* App::canonicalize: dest.canonicalize() needs the path to exist, and
\* strip_prefix(workdir) needs it to be inside the working directory.
canonicalize(d, exists) ==
    IF ~exists THEN [ok |-> FALSE, err |-> "failed to find full path to destination directory", rel |-> Outside]
    ELSE IF Resolve(d) = Outside THEN [ok |-> FALSE, err |-> "destination directory not in a repository", rel |-> Outside]
    ELSE [ok |-> TRUE, err |-> "none", rel |-> Resolve(d)]

Fields == {"url", "rev", "sourcePath"}

\* format!("subcopy.{}.<field>", relative_str)
KeyName(rel, field) == <<"subcopy">> \o rel \o <<field>>

\* Lower case; sourcePath is the only name here that has an upper-case letter.
Lower(str) == IF str = "sourcePath" THEN "sourcepath" ELSE str

\* A configuration name as the library keeps it, in set_str, get_string,
\* get_path and in the names of the entries it enumerates: the section (before
\* the first dot) and the variable (after the last dot) in lower case, the
\* subsection between them as it is.
NormalizeName(name) ==
    [i \in 1..Len(name) |-> IF i = 1 \/ i = Len(name) THEN Lower(name[i]) ELSE name[i]]

StoreKeys == {NormalizeName(KeyName(rel, f)) : rel \in Rels, f \in Fields}
ValuesOf(key) ==
    IF Last(key) = "url" THEN Urls ELSE IF Last(key) = "rev" THEN Revs ELSE SourceValues
EmptyStore == [k \in StoreKeys |-> Unset]

\* config.set_str(name, value)
set_str(cfg, name, value) == [cfg EXCEPT ![NormalizeName(name)] = value]

\* snapshot.get_string(name): an error that names the key when it is not set.
get_stringOrDefault(cfg, name) ==
    [ok |-> TRUE, err |-> "none", value |-> cfg[NormalizeName(name)]]
get_string(cfg, name) ==
    IF cfg[NormalizeName(name)] = Unset
    THEN [ok |-> FALSE, err |-> Last(name), value |-> Unset]
    ELSE [ok |-> TRUE, err |-> "none", value |-> cfg[NormalizeName(name)]]

\* snapshot.get_path(name): get_string, then a leading "~" is replaced by the
\* home directory.
get_path(cfg, name) ==
    LET r == get_string(cfg, name)
    IN  IF r.ok /\ r.value[1] = "~"
        THEN [r EXCEPT !.value = <<"/home/user">> \o Tail(r.value)]
        ELSE r

\* App::register.  fault = k > 0: the k-th set_str fails (for k = 3 also
\* path_to_string of the source path), after the ones before it were written.
register(cfg, d, exists, url, rev, sp, fault) ==
    LET c == canonicalize(d, exists)
        c1 == set_str(cfg, KeyName(c.rel, "url"), url)
        c2 == set_str(c1, KeyName(c.rel, "rev"), rev)
        c3 == set_str(c2, KeyName(c.rel, "sourcePath"), sp)
    IN  IF ~c.ok THEN [ok |-> FALSE, err |-> c.err, cfg |-> cfg]
        ELSE IF fault = 1 THEN [ok |-> FALSE, err |-> "io", cfg |-> cfg]
        ELSE IF fault = 2 THEN [ok |-> FALSE, err |-> "io", cfg |-> c1]
        ELSE IF fault = 3 THEN [ok |-> FALSE, err |-> "io", cfg |-> c2]
        ELSE [ok |-> TRUE, err |-> "none", cfg |-> c3]

\* App::get: the three fields, or the error of the first one that is not set.
get(cfg, d, exists) ==
    LET c == canonicalize(d, exists)
        url == get_string(cfg, KeyName(c.rel, "url"))
        rev == get_string(cfg, KeyName(c.rel, "rev"))
        sp == get_path(cfg, KeyName(c.rel, "sourcePath"))
        none == [url |-> Unset, rev |-> Unset, source_path |-> Unset]
    IN  IF ~c.ok THEN [ok |-> FALSE, err |-> c.err, conf |-> none]
        ELSE IF ~url.ok THEN [ok |-> FALSE, err |-> url.err, conf |-> none]
        ELSE IF ~rev.ok THEN [ok |-> FALSE, err |-> rev.err, conf |-> none]
        ELSE IF ~sp.ok THEN [ok |-> FALSE, err |-> sp.err, conf |-> none]
        ELSE [ok |-> TRUE, err |-> "none",
              conf |-> [url |-> url.value, rev |-> rev.value, source_path |-> sp.value]]

\* App::list ---------------------------------------------------------------

\* The entries the iterator yields: those whose name matches
\* ^subcopy\..*\.(url|rev|sourcePath)$, a match that respects case.
MatchesGlob(name) ==
    Len(name) >= 3 /\ name[1] = "subcopy" /\ Last(name) \in {"url", "rev", "sourcePath"}

\* name.rsplitn(2, '.').nth(1), then splitn(2, '.').nth(1): what is between
\* the first dot and the last one.
Middle(name) == Tail(SubSeq(name, 1, Len(name) - 1))

DefaultOption(middle) ==
    [url |-> Unset, rev |-> Unset, source_path |-> Unset, dest_path |-> middle]

\* One turn of the loop of list: the slot of the entry's path gets the field
\* the name ends with.
ListEntry(map, name, value) ==
    LET middle == Middle(name)
        slot == IF middle \in DOMAIN map THEN map[middle] ELSE DefaultOption(middle)
        filled == IF Last(name) = "url" THEN [slot EXCEPT !.url = value]
                  ELSE IF Last(name) = "rev" THEN [slot EXCEPT !.rev = value]
                  ELSE IF Last(name) = "sourcePath" THEN [slot EXCEPT !.source_path = value]
                  ELSE slot
    IN  [m \in DOMAIN map \cup {middle} |-> IF m = middle THEN filled ELSE map[m]]

\* list over the entries in the order `ord` in which the library yields them.
RECURSIVE list(_, _, _)
list(cfg, ord, map) ==
    IF ord = << >> THEN map
    ELSE list(cfg, Tail(ord),
              IF MatchesGlob(Head(ord)) THEN ListEntry(map, Head(ord), cfg[Head(ord)]) ELSE map)

\* Every order of the elements of S.
RECURSIVE Orders(_)
Orders(S) ==
    IF S = {} THEN {<< >>}
    ELSE UNION {{<<x>> \o t : t \in Orders(S \ {x})} : x \in S}

Entries(cfg) == {k \in StoreKeys : cfg[k] # Unset}


\* The store, call by call --------------------------------------------------

NoRecord == [url |-> Unset, rev |-> Unset, source_path |-> Unset]
NoOpt == [cmd |-> "none", local_path |-> "vendor/util", force |-> FALSE,
          url |-> Unset, rev |-> Unset, upstream_path |-> Unset]
Stores == {cfg \in [StoreKeys -> Urls \cup Revs \cup SourceValues \cup {Unset}] :
              \A k \in StoreKeys : cfg[k] \in ValuesOf(k) \cup {Unset}}

\* A call of App::register.
Register ==
    /\ pc = "s_idle"
    /\ \E d \in DestArgs, exists \in BOOLEAN :
          LET c == canonicalize(d, exists)
          IN  \E url \in IF c.ok THEN Urls ELSE {<<"u1">>},
                 rev \in IF c.ok THEN Revs ELSE {<<"r1">>},
                 sp \in IF c.ok THEN SourceValues ELSE {<<"lib", "util">>},
                 fault \in IF c.ok THEN 0..3 ELSE {0} :
                 LET r == register(store, d, exists, url, rev, sp, fault)
                 IN  /\ store' = r.cfg
                     /\ result' = [op |-> "register", ok |-> r.ok, err |-> r.err, rel |-> c.rel]
                     /\ registered' =
                           IF r.ok
                           THEN [registered EXCEPT !.recs[c.rel] =
                                    [url |-> url, rev |-> rev, source_path |-> sp]]
                           ELSE IF r.cfg # store
                           THEN [exact |-> FALSE, recs |-> [registered.recs EXCEPT ![c.rel] = NoRecord]]
                           ELSE registered
    /\ store0' = store
    /\ pc' = "s_returned"
    /\ UNCHANGED <<upstream, source_path, dest, dest0, tmp, walkVars, mainVars>>

\* A call of App::get.
Get ==
    /\ pc = "s_idle"
    /\ \E d \in DestArgs, exists \in BOOLEAN :
          LET r == get(store, d, exists)
              c == canonicalize(d, exists)
          IN  result' = [op |-> "get", ok |-> r.ok, err |-> r.err, rel |-> c.rel,
                         resolved |-> c.ok, conf |-> r.conf]
    /\ store0' = store
    /\ pc' = "s_returned"
    /\ UNCHANGED <<upstream, source_path, dest, dest0, tmp, store, registered, walkVars, mainVars>>

\* A call of App::list; the library yields the entries in some order.
List ==
    /\ pc = "s_idle"
    /\ \E ord \in Orders(Entries(store)) :
          result' = [op |-> "list", ok |-> TRUE, err |-> "none", map |-> list(store, ord, << >>)]
    /\ store0' = store
    /\ pc' = "s_returned"
    /\ UNCHANGED <<upstream, source_path, dest, dest0, tmp, store, registered, walkVars, mainVars>>

\* The caller takes the result; the next call can start.
Returned ==
    /\ pc = "s_returned"
    /\ pc' = "s_idle"
    /\ result' = [op |-> "none", ok |-> TRUE, err |-> "none"]
    /\ store0' = store
    /\ UNCHANGED <<upstream, source_path, dest, dest0, tmp, store, registered, walkVars, mainVars>>

InitStore ==
    /\ pc = "s_idle"
    /\ upstream \in {t \in UpstreamTrees : \A p \in UpPaths : Len(p) > 1 => t[p] = NoObject}
    /\ source_path = <<"lib">>
    /\ dest = NoDir
    /\ dest0 = NoDir
    /\ tmp = NoDir
    /\ store \in Stores
    /\ store0 = store
    /\ registered = [exact |-> store = EmptyStore, recs |-> [rel \in Rels |-> NoRecord]]
    /\ walk = << >>
    /\ written = {}
    /\ skipped = {}
    /\ result = [op |-> "none", ok |-> TRUE, err |-> "none"]
    /\ opt = NoOpt
    /\ conf = NoRecord
    /\ cache = NoMirrors
    /\ remote = FALSE
    /\ invoked = FALSE
    /\ copied = FALSE
    /\ edited = FALSE
    /\ exit_status = "none"

NextStore == Register \/ Get \/ List \/ Returned

SpecStore == InitStore /\ [][NextStore]_vars

FieldsSet(cfg, rel) ==
    {f \in Fields : cfg[NormalizeName(KeyName(rel, f))] # Unset}

\* C7 as stated: get after register returns exactly the three values of the
\* most recent register on that destination, and a register leaves the records
\* of the other destinations as they were.
C7_AsStated ==
    /\ (result.op = "get" /\ result.resolved /\ registered.recs[result.rel] # NoRecord) =>
            /\ result.ok
            /\ result.conf = registered.recs[result.rel]
    /\ (result.op = "register" /\ result.ok) =>
            \A rel \in Rels \ {result.rel}, f \in Fields :
                store[NormalizeName(KeyName(rel, f))] = store0[NormalizeName(KeyName(rel, f))]

\* C8 as stated: from an empty store, after register calls that all succeeded,
\* list returns exactly one record per registered destination, keyed by the
\* relative path, with url, rev and upstream path equal to what was registered.
C8_AsStated ==
    (result.op = "list" /\ registered.exact) =>
        /\ DOMAIN result.map = {rel \in Rels : registered.recs[rel] # NoRecord}
        /\ \A rel \in DOMAIN result.map :
                /\ result.map[rel].url = registered.recs[rel].url
                /\ result.map[rel].rev = registered.recs[rel].rev
                /\ result.map[rel].source_path = registered.recs[rel].source_path

\* C9: get on a destination whose record lacks a field fails with an error that
\* names a field that is not set, and returns no record; get succeeds only when
\* the three fields are set; in both cases the store is as it was.
C9_GetNeedsCompleteRecord ==
    result.op = "get" =>
        /\ store = store0
        /\ (result.ok => FieldsSet(store, result.rel) = Fields)
        /\ (result.resolved /\ FieldsSet(store, result.rel) # Fields) =>
                /\ ~result.ok
                /\ result.err \in Fields \ FieldsSet(store, result.rel)
                /\ result.conf = NoRecord

\* get on a record whose url is set and whose rev is not.
C9_Witness ==
    /\ result.op = "get"
    /\ result.resolved
    /\ "url" \in FieldsSet(store, result.rel)
    /\ "rev" \notin FieldsSet(store, result.rel)
    /\ ~result.ok
    /\ result.err = "rev"

----------------------------------------------------------------------------
\* App::extract

\* The upstream paths the model passes as source_path; "nope" is in no tree.
SourcePaths == {<<"lib">>, <<"lib", "a">>, <<"lib", "d">>, <<"lib", "d", "a">>, <<"nope">>}

\* Blob case: the file is written at dest.join(entry.name()), the name being
\* the last component of the path.
BlobTargetFirst(path) == <<path[IF Len(path) > 1 THEN 2 ELSE 1]>>
BlobTarget(path) == <<Last(path)>>

\* The relative path a walk entry is written at: dest.join(dir), then
\* push(entry.name()).  `p` is the entry's path below the walked tree, that is
\* dir followed by the name.
EntryTargetNameOnly(p) == <<Last(p)>>
EntryTarget(p) == Parent(p) \o <<Last(p)>>

\* The body of the walk callback for the entry at `p` below `base`: a blob is
\* written with fs::write, a tree is created with fs::create_dir_all.
ExtractEntry(tree, base, fs, p) ==
    LET object == tree[base \o p]
    IN  IF object.kind = "blob"
        THEN WriteFile(fs, EntryTarget(p), object.data)
        ELSE CreateDirAll(fs, EntryTarget(p))

\* The whole walk over `ord`.  fault = 0: no entry fails for an outside reason;
\* fault = k > 0: the k-th entry fails (an I/O error, an object that cannot be
\* read, a name that is not UTF-8).  The walk stops at the first failure and
\* keeps what was written before it.
RECURSIVE WalkEntries(_, _, _, _, _)
WalkEntries(tree, base, fs, ord, fault) ==
    IF ord = << >> THEN [ok |-> TRUE, fs |-> fs]
    ELSE IF fault = 1 THEN [ok |-> FALSE, fs |-> fs]
    ELSE LET r == ExtractEntry(tree, base, fs, Head(ord))
         IN  IF ~r.ok THEN r
             ELSE WalkEntries(tree, base, r.fs, Tail(ord), IF fault = 0 THEN 0 ELSE fault - 1)

\* extract as one call, for its callers: the directory it leaves and whether
\* it returned Ok.
extract(tree, path, fs, fault) ==
    LET object == GetPath(tree, path)
    IN  IF object = NoObject THEN [ok |-> FALSE, fs |-> fs]
        ELSE IF object.kind = "blob"
        THEN IF fault = 1 THEN [ok |-> FALSE, fs |-> fs]
             ELSE WriteFile(fs, BlobTarget(path), object.data)
        ELSE WalkEntries(tree, path, fs, TreeWalk(tree, path), fault)


\* extract, entry by entry -------------------------------------------------

\* lib.rs:65-72: resolve the revision and the path; write a blob at once, or
\* start the walk of a tree.
ExtractCall ==
    /\ pc = "x_call"
    /\ LET object == GetPath(upstream, source_path)
       IN  \/ /\ object = NoObject
              /\ pc' = "x_done"
              /\ result' = Err("failed to get path")
              /\ UNCHANGED <<dest, walk, written>>
           \/ /\ pc' = "x_done"
              /\ result' = Err("failed to parse revision")
              /\ UNCHANGED <<dest, walk, written>>
           \/ /\ object.kind = "blob"
              /\ LET r == WriteFile(dest, BlobTarget(source_path), object.data)
                 IN  \/ /\ r.ok
                        /\ dest' = r.fs
                        /\ written' = {BlobTarget(source_path)}
                        /\ result' = Ok
                     \/ /\ result' = Err("io")
                        /\ UNCHANGED <<dest, written>>
              /\ pc' = "x_done"
              /\ UNCHANGED walk
           \/ /\ object.kind = "tree"
              /\ walk' = TreeWalk(upstream, source_path)
              /\ pc' = "x_walk"
              /\ UNCHANGED <<dest, written, result>>
    /\ UNCHANGED <<upstream, source_path, dest0, tmp, storeVars, skipped, mainVars>>

\* lib.rs:77-96: the callback on the next entry; an error is kept and the walk
\* aborted.
WalkEntryContinues ==
    /\ pc = "x_walk"
    /\ walk # << >>
    /\ LET r == ExtractEntry(upstream, source_path, dest, Head(walk))
       IN  \/ /\ r.ok
              /\ dest' = r.fs
              /\ written' = written \cup {Head(walk)}
              /\ UNCHANGED result
           \/ /\ result' = Err("walk")
              /\ UNCHANGED <<dest, written>>
    /\ walk' = Tail(walk)
    /\ UNCHANGED <<pc, skipped>>
    /\ UNCHANGED <<upstream, source_path, dest0, tmp, storeVars, mainVars>>
WalkEntry ==
    /\ pc = "x_walk"
    /\ walk # << >>
    /\ LET r == ExtractEntry(upstream, source_path, dest, Head(walk))
       IN  \/ /\ r.ok
              /\ dest' = r.fs
              /\ written' = written \cup {Head(walk)}
              /\ walk' = Tail(walk)
              /\ UNCHANGED <<pc, skipped, result>>
           \/ /\ pc' = "x_done"
              /\ result' = Err("walk")
              /\ skipped' = {walk[i] : i \in 2..Len(walk)}
              /\ walk' = << >>
              /\ UNCHANGED <<dest, written>>
    /\ UNCHANGED <<upstream, source_path, dest0, tmp, storeVars, mainVars>>

\* lib.rs:97-102: the walk is over and no error was kept.
WalkEnd ==
    /\ pc = "x_walk"
    /\ walk = << >>
    /\ pc' = "x_done"
    /\ result' = Ok
    /\ UNCHANGED <<upstream, source_path, dest, dest0, tmp, storeVars, walkVars, mainVars>>

InitExtract ==
    /\ pc = "x_call"
    /\ upstream \in UpstreamTrees
    /\ source_path \in SourcePaths
    /\ dest \in AllFs
    /\ dest0 = dest
    /\ tmp = NoDir
    /\ store = EmptyStore
    /\ store0 = EmptyStore
    /\ registered = [exact |-> TRUE, recs |-> [rel \in Rels |-> NoRecord]]
    /\ walk = << >>
    /\ written = {}
    /\ skipped = {}
    /\ result = [op |-> "none", ok |-> TRUE, err |-> "none"]
    /\ opt = NoOpt
    /\ conf = NoRecord
    /\ cache = NoMirrors
    /\ remote = FALSE
    /\ invoked = FALSE
    /\ copied = FALSE
    /\ edited = FALSE
    /\ exit_status = "none"

NextExtract == ExtractCall \/ WalkEntry \/ WalkEnd

SpecExtract == InitExtract /\ [][NextExtract]_vars

\* The object a directory node stands for.
NodeOf(object) ==
    IF object.kind = "blob" THEN FileNode(object.data)
    ELSE IF object.kind = "tree" THEN DirNode ELSE NoNode

ExtractedTree ==
    pc = "x_done" /\ result.ok /\ GetPath(upstream, source_path).kind = "tree"

ExtractedBlob ==
    pc = "x_done" /\ result.ok /\ GetPath(upstream, source_path).kind = "blob"

\* C5 as stated: after a successful extraction of a tree, the paths below the
\* destination are exactly the paths of the subtree, with the blobs' contents.
C5_AsStated ==
    ExtractedTree =>
        /\ PathsOf(dest) = SubtreePaths(upstream, source_path)
        /\ \A p \in PathsOf(dest) : dest[p] = NodeOf(upstream[source_path \o p])

\* C5 (amended): after a successful extraction of a tree, every path of the
\* subtree is below the destination with the blob's content (a directory for a
\* tree), exactly the subtree's paths were written, and every other path below
\* the destination is as it was before the call; so the two path sets are equal
\* when the destination held nothing before the call.
C5_TreeExtraction ==
    ExtractedTree =>
        /\ \A p \in SubtreePaths(upstream, source_path) :
                dest[p] = NodeOf(upstream[source_path \o p])
        /\ written = SubtreePaths(upstream, source_path)
        /\ \A p \in RelPaths \ SubtreePaths(upstream, source_path) : dest[p] = dest0[p]
        /\ (PathsOf(dest0) = {} => PathsOf(dest) = SubtreePaths(upstream, source_path))

\* A nested subtree extracted over a destination that held another path.
C5_Witness ==
    /\ ExtractedTree
    /\ source_path = <<"lib">>
    /\ upstream[<<"lib", "d", "a">>].kind = "blob"
    /\ upstream[<<"lib", "a">>] = NoObject
    /\ dest0[<<"a">>].kind = "file"

\* C6 as stated: after a successful extraction of a blob the destination holds
\* exactly one file, named by the last component, with the blob's content.
C6_AsStated ==
    ExtractedBlob =>
        /\ PathsOf(dest) = {<<Last(source_path)>>}
        /\ dest[<<Last(source_path)>>] = NodeOf(upstream[source_path])

\* C6 (amended): after a successful extraction of a blob, exactly one file was
\* written, named by the last component of the upstream path, with the blob's
\* content; every other path below the destination is as it was before the
\* call, so it is the only file when the destination held nothing before.
C6_BlobExtraction ==
    ExtractedBlob =>
        /\ dest[<<Last(source_path)>>] = NodeOf(upstream[source_path])
        /\ written = {<<Last(source_path)>>}
        /\ \A p \in FsPaths \ {<<Last(source_path)>>} : dest[p] = dest0[p]
        /\ (PathsOf(dest0) = {} => PathsOf(dest) = {<<Last(source_path)>>})

\* A blob two levels down, written under its last component only, beside a
\* directory that was there before.
C6_Witness ==
    /\ ExtractedBlob
    /\ source_path = <<"lib", "d", "a">>
    /\ dest0[<<"d">>] = DirNode
    /\ dest0[<<"a">>] = NoNode

----------------------------------------------------------------------------
\* App::fetch, call after call

\* One call of fetch, on any URL, with or without a working transfer.
FetchCall ==
    /\ pc = "c_idle"
    /\ \E url \in CacheUrls, net \in BOOLEAN :
          LET r == fetch(cache, url, net)
          IN  /\ cache' = r.cache
              /\ result' = [op |-> "fetch", ok |-> r.ok, err |-> r.err, url |-> url,
                            exists |-> r.exists, cloned |-> r.cloned,
                            before |-> cache[MirrorPath(url)].state]
    /\ UNCHANGED <<pc, upstream, source_path, dest, dest0, tmp, storeVars, walkVars,
                   opt, conf, remote, invoked, copied, edited, exit_status>>

InitCache ==
    /\ pc = "c_idle"
    \* fetch reads neither a tree nor a directory: both are left empty
    /\ upstream \in {t \in UpstreamTrees : SubtreePaths(t, <<"lib">>) = {}}
    /\ source_path = <<"lib">>
    /\ dest = NoDir
    /\ dest0 = dest
    /\ tmp = NoDir
    /\ store = EmptyStore
    /\ store0 = EmptyStore
    /\ registered = [exact |-> TRUE, recs |-> [rel \in Rels |-> NoRecord]]
    /\ walk = << >>
    /\ written = {}
    /\ skipped = {}
    /\ result = [op |-> "none", ok |-> TRUE, err |-> "none"]
    /\ opt = NoOpt
    /\ conf = NoRecord
    /\ cache \in {[p \in CachePaths |-> [state |-> f[p], urls |-> {}]] :
                    f \in [CachePaths -> MirrorStates]}
    /\ remote = FALSE
    /\ invoked = FALSE
    /\ copied = FALSE
    /\ edited = FALSE
    /\ exit_status = "none"

NextCache == FetchCall

SpecCache == InitCache /\ [][NextCache]_vars

\* C11 as stated: one URL per mirror path, a clone only where no path exists,
\* and every fetch on a URL whose mirror path exists returns a usable handle
\* without cloning.
C11_AsStated ==
    /\ \A p \in CachePaths : Cardinality(cache[p].urls) <= 1
    /\ (result.op = "fetch" /\ result.cloned) => ~result.exists
    /\ (result.op = "fetch" /\ result.exists) => (~result.cloned /\ result.ok)

\* C11 (amended): every mirror path is touched by fetches of one URL only; a
\* clone is made only where no path exists, and a failing clone leaves none; a
\* fetch on a path that exists never clones and leaves what is there, and it
\* returns a handle exactly when the path holds a repository and the refresh
\* succeeds, an error otherwise.
C11_MirrorCache ==
    /\ \A p \in CachePaths : Cardinality(cache[p].urls) <= 1
    /\ \A p \in CachePaths : cache[p].urls \subseteq {u \in CacheUrls : MirrorPath(u) = p}
    /\ result.op = "fetch" =>
          LET now == cache[MirrorPath(result.url)].state
          IN  /\ result.cloned <=> ~result.exists
              /\ result.exists <=> result.before # "absent"
              /\ result.cloned => now = (IF result.ok THEN "mirror" ELSE "absent")
              /\ result.exists => now = result.before
              /\ (result.exists /\ result.ok) => result.before = "mirror"
              /\ (result.exists /\ result.before = "corrupt") => ~result.ok

\* A mirror that was cloned by one fetch and opened by a later one, beside the
\* mirror of a URL that differs by a trailing slash.
C11_Witness ==
    /\ result.op = "fetch"
    /\ result.url = <<"u1">>
    /\ result.exists
    /\ result.ok
    /\ cache[MirrorPath(<<"u1">>)].urls = {<<"u1">>}
    /\ cache[MirrorPath(<<"u1/">>)].urls = {<<"u1/">>}
    /\ cache[MirrorPath(<<"u1/">>)].state = "mirror"

----------------------------------------------------------------------------
\* The directory walks of App::with_repo

\* WalkDir::new(root): the root first, then every entry, a directory before
\* what it holds; the order among siblings is the order the directory is read in.
SiblingOrders == { << <<"a">>, <<"d">>, <<"d", "a">> >>, << <<"d">>, <<"d", "a">>, <<"a">> >> }
WalkDir(fs) ==
    {<<Root>> \o SelectSeq(o, LAMBDA p : fs[p] # NoNode) : o \in SiblingOrders}

\* The body of the two copy loops: a directory is created with
\* create_dir_all, anything else is copied with fs::copy.
CopyEntryKeepsExisting(from, to, p) ==
    IF to[p] # NoNode THEN [ok |-> TRUE, fs |-> to]
    ELSE IF from[p] = DirNode THEN CreateDirAll(to, p) ELSE WriteFile(to, p, from[p].data)
CopyEntry(from, to, p) ==
    IF from[p] = DirNode THEN CreateDirAll(to, p) ELSE WriteFile(to, p, from[p].data)

\* A copy loop over `ord`; fault = k > 0: the k-th entry fails for an outside
\* reason.  The loop returns at the first failure and keeps what it copied.
RECURSIVE CopyLoop(_, _, _, _)
CopyLoop(from, to, ord, fault) ==
    IF ord = << >> THEN [ok |-> TRUE, fs |-> to]
    ELSE IF fault = 1 THEN [ok |-> FALSE, fs |-> to]
    ELSE LET r == CopyEntry(from, to, Head(ord))
         IN  IF ~r.ok THEN r
             ELSE CopyLoop(from, r.fs, Tail(ord), IF fault = 0 THEN 0 ELSE fault - 1)

\* lib.rs:202-215: the destination is walked and copied onto the scratch
\* directory.  A root that does not exist makes the first entry an error.
CopyInToDest(local, scratch, ord) ==
    IF local[Root] = NoNode THEN [ok |-> FALSE, dest |-> local, tmp |-> scratch]
    ELSE LET r == CopyLoop(scratch, local, <<Root>> \o SelectPaths(PathsOf(scratch)), 0)
         IN  [ok |-> r.ok, dest |-> r.fs, tmp |-> scratch]
CopyIn(local, scratch, ord) ==
    IF local[Root] = NoNode THEN [ok |-> FALSE, dest |-> local, tmp |-> scratch]
    ELSE LET r == CopyLoop(local, scratch, ord, 0)
         IN  [ok |-> r.ok, dest |-> local, tmp |-> r.fs]

\* lib.rs:219-232: the scratch directory, .git left out, is walked and copied
\* onto the destination.
CopyOut(scratch, local, ord, fault) == CopyLoop(scratch, local, ord, fault)

\* What an interactive subprocess can do to the scratch working tree: up to
\* MaxEdits times remove an entry, write a file or create a directory.
Remove(fs, p) == [q \in FsPaths |-> IF IsPrefix(p, q) THEN NoNode ELSE fs[q]]
Edit(fs) ==
    {fs} \cup {Remove(fs, p) : p \in PathsOf(fs)}
         \cup {WriteFile(fs, p, c).fs : p \in RelPaths, c \in Contents}
         \cup {CreateDirAll(fs, p).fs : p \in RelPaths}
RECURSIVE Edits(_, _)
Edits(fs, n) == IF n = 0 THEN {fs} ELSE UNION {Edit(g) : g \in Edits(fs, n - 1)}

----------------------------------------------------------------------------
\* App::with_repo, step by step

Res(ok, stage, err) == [op |-> opt.cmd, ok |-> ok, stage |-> stage, err |-> err]

\* The TempDir `tmp` goes out of scope when with_repo returns, by ? or at its
\* end, and when a panic unwinds through it: dropping it removes the directory.
dropKeepsDirectory(t) == t
drop(t) == NoDir

\* An error return: the ? operator leaves with_repo and main; the TempDir, if
\* there is one, is dropped on the way.
Fail(stage, err) ==
    /\ pc' = "m_exit"
    /\ result' = Res(FALSE, stage, err)
    /\ tmp' = drop(tmp)

\* `callback(&tmp_repo)?`: with_repo goes on only when the callback returned Ok.
CallbackOkIgnored(r) == TRUE
CallbackOk(r) == r.ok

\* lib.rs:180
TempDir ==
    /\ pc = "w_tempdir"
    /\ \/ /\ tmp' = EmptyDir
          /\ pc' = "w_init"
          /\ UNCHANGED result
       \/ Fail("tempdir", "failed to get temporary directory")
    /\ UNCHANGED <<upstream, source_path, dest, dest0, storeVars, walkVars, mainVars>>

\* lib.rs:181.  Repository::init makes a repository without remotes; the
\* rebase callback of main.rs expects one named "upstream", so whether the
\* scratch repository has it is left open here.
InitRepo ==
    /\ pc = "w_init"
    /\ \/ /\ pc' = "w_fetch"
          /\ remote' \in BOOLEAN
          /\ UNCHANGED <<tmp, result>>
       \/ /\ Fail("init", "failed to init temp repository")
          /\ UNCHANGED remote
    /\ UNCHANGED <<upstream, source_path, dest, dest0, storeVars, walkVars,
                   opt, conf, cache, invoked, copied, edited, exit_status>>

\* lib.rs:182
FetchSource ==
    /\ pc = "w_fetch"
    /\ \E net \in BOOLEAN :
          LET r == fetch(cache, conf.url, net)
          IN  /\ cache' = r.cache
              /\ IF r.ok
                 THEN pc' = "w_extract" /\ UNCHANGED <<tmp, result>>
                 ELSE Fail("fetch", "failed to fetch source repository")
    /\ UNCHANGED <<upstream, source_path, dest, dest0, storeVars, walkVars,
                   opt, conf, remote, invoked, copied, edited, exit_status>>

\* lib.rs:183: the pristine subtree is extracted into the scratch directory.
ExtractPristine ==
    /\ pc = "w_extract"
    /\ LET r == extract(upstream, conf.source_path, tmp, 0)
       IN  \/ /\ r.ok
              /\ tmp' = r.fs
              /\ pc' = "w_commit"
              /\ UNCHANGED result
           \/ Fail("extract", "failed to extract files from source repository")
    /\ UNCHANGED <<upstream, source_path, dest, dest0, storeVars, walkVars, mainVars>>

\* lib.rs:185-200: the extracted files become the first commit.
CommitPristine ==
    /\ pc = "w_commit"
    /\ \/ /\ pc' = "w_copyin"
          /\ UNCHANGED <<tmp, result>>
       \/ Fail("commit", "failed to create commit")
    /\ UNCHANGED <<upstream, source_path, dest, dest0, storeVars, walkVars, mainVars>>

\* lib.rs:202-215
CopyInStep ==
    /\ pc = "w_copyin"
    /\ \E ord \in WalkDir(dest) :
          LET r == CopyIn(dest, tmp, ord)
          IN  \/ /\ r.ok
                 /\ tmp' = r.tmp
                 /\ dest' = r.dest
                 /\ pc' = "w_callback"
                 /\ UNCHANGED result
              \/ /\ Fail("copy-in", "failed to copy")
                 /\ dest' = r.dest
    /\ UNCHANGED <<upstream, source_path, dest0, storeVars, walkVars, mainVars>>

\* lib.rs:217 with main.rs:106-110: the callback of the shell command prints
\* and starts the shell.
ShellCallback ==
    /\ pc = "w_callback"
    /\ opt.cmd = "shell"
    /\ invoked' = TRUE
    /\ pc' = "spawn"
    /\ UNCHANGED <<upstream, source_path, dest, dest0, tmp, storeVars, walkVars, result,
                   opt, conf, cache, remote, copied, edited, exit_status>>

\* lib.rs:217 with main.rs:121-153: the callback of the rebase command.  It
\* panics without the remote, returns the error of any failing step, and
\* otherwise commits the overlay and starts the rebase, which checks out the
\* new revision into the working tree.
RebaseCallback ==
    /\ pc = "w_callback"
    /\ opt.cmd = "rebase"
    /\ invoked' = TRUE
    /\ \/ /\ ~remote
          /\ Fail("panic", "remote 'upstream' should be set at this point")
          /\ UNCHANGED edited
       \/ /\ remote
          /\ pc' = "w_called"
          /\ result' = Res(FALSE, "callback", "failed to start the rebase")
          /\ UNCHANGED <<tmp, edited>>
       \/ /\ remote
          /\ \E t \in Edits(tmp, MaxEdits) : tmp' = t
          /\ edited' = TRUE
          /\ pc' = "spawn"
          /\ UNCHANGED result
    /\ UNCHANGED <<upstream, source_path, dest, dest0, storeVars, walkVars,
                   opt, conf, cache, remote, copied, exit_status>>

\* main.rs:111-113 and 154-156: Command::new(shell).status()? is an error only
\* when the shell cannot be started; the callback then returns it.
Spawn ==
    /\ pc = "spawn"
    /\ \/ /\ pc' = "shell"
          /\ UNCHANGED result
       \/ /\ pc' = "w_called"
          /\ result' = Res(FALSE, "callback", "failed to start the shell")
    /\ UNCHANGED <<upstream, source_path, dest, dest0, tmp, storeVars, walkVars, mainVars>>

\* The shell runs and exits; main.rs:113-114 and 156-157 drop the exit status
\* and the callback returns Ok.
ShellExit ==
    /\ pc = "shell"
    /\ \E t \in Edits(tmp, MaxEdits), status \in {"zero", "nonzero"} :
          /\ tmp' = t
          /\ edited' = (edited \/ t # tmp)
          /\ exit_status' = status
    /\ pc' = "w_called"
    /\ UNCHANGED <<upstream, source_path, dest, dest0, storeVars, walkVars, result,
                   opt, conf, cache, remote, invoked, copied>>

\* lib.rs:217: the ? on what the callback returned.
Called ==
    /\ pc = "w_called"
    /\ IF CallbackOk(result)
       THEN pc' = "w_copyout" /\ UNCHANGED tmp
       ELSE pc' = "m_exit" /\ tmp' = drop(tmp)
    /\ UNCHANGED <<upstream, source_path, dest, dest0, storeVars, walkVars, result, mainVars>>

\* lib.rs:219-232
CopyOutStep ==
    /\ pc = "w_copyout"
    /\ copied' = TRUE
    /\ \E ord \in WalkDir(tmp), fault \in 0..Cardinality(FsPaths) :
          LET r == CopyOut(tmp, dest, ord, fault)
          IN  /\ dest' = r.fs
              /\ IF r.ok /\ fault = 0
                 THEN pc' = "w_return" /\ UNCHANGED <<tmp, result>>
                 ELSE Fail("copy-out", "failed to copy")
    /\ UNCHANGED <<upstream, source_path, dest0, storeVars, walkVars,
                   opt, conf, cache, remote, invoked, edited, exit_status>>

\* lib.rs:233-234: Ok(()); the TempDir is dropped.
Return ==
    /\ pc = "w_return"
    /\ tmp' = drop(tmp)
    /\ pc' = "m_after"
    /\ UNCHANGED <<upstream, source_path, dest, dest0, storeVars, walkVars, result, mainVars>>

----------------------------------------------------------------------------
\* main

Exists(fs) == fs[Root] # NoNode

\* main.rs:103 and 118: app.get(local_path)?
GetConf ==
    /\ pc = "m_start"
    /\ opt.cmd \in {"shell", "rebase"}
    /\ LET r == get(store, opt.local_path, Exists(dest))
       IN  IF r.ok
           THEN /\ conf' = r.conf
                /\ pc' = "w_tempdir"
                /\ UNCHANGED result
           ELSE /\ pc' = "m_exit"
                /\ result' = Res(FALSE, "get", r.err)
                /\ UNCHANGED conf
    /\ UNCHANGED <<upstream, source_path, dest, dest0, tmp, storeVars, walkVars,
                   opt, cache, remote, invoked, copied, edited, exit_status>>

\* repo.revparse_single(rev)?.id(): the object id a revision expression
\* resolves to (main.rs:84, 125, 157).
revparse_singleIdentity(rev) == rev
revparse_single(rev) ==
    CASE rev = <<"r1">> -> <<"id1">>
      [] rev = <<"r2">> -> <<"id2">>

\* main.rs:115-116 and 158-160: after with_repo returned Ok.  shell is done;
\* rebase registers the id of the new revision.
AfterSession ==
    /\ pc = "m_after"
    /\ pc' = "m_exit"
    /\ \/ /\ opt.cmd = "shell"
          /\ result' = Res(TRUE, "none", "none")
          /\ UNCHANGED store
       \/ /\ opt.cmd = "rebase"
          /\ \E fault \in 0..3 :
                LET r == register(store, opt.local_path, Exists(dest), conf.url,
                                  revparse_single(opt.rev), conf.source_path, fault)
                IN  /\ store' = r.cfg
                    /\ result' = Res(r.ok, IF r.ok THEN "none" ELSE "register", r.err)
    /\ UNCHANGED <<upstream, source_path, dest, dest0, tmp, store0, registered, walkVars, mainVars>>

\* main.rs:80: app.fetch(&opts.url)
FetchRepo ==
    /\ pc = "m_start"
    /\ opt.cmd \in {"fetch", "add"}
    /\ \E net \in BOOLEAN :
          LET r == fetch(cache, opt.url, net)
          IN  /\ cache' = r.cache
              /\ IF r.ok
                 THEN pc' = "m_ensure" /\ UNCHANGED result
                 ELSE pc' = "m_exit" /\ result' = Res(FALSE, "main-fetch", "failed to fetch git repo")
    /\ UNCHANGED <<upstream, source_path, dest, dest0, tmp, storeVars, walkVars,
                   opt, conf, remote, invoked, copied, edited, exit_status>>

\* main.rs:82: ensure!(!opts.local_path.exists() || opts.force, ...)
MayOverwriteAlways(exists, force) == TRUE
MayOverwrite(exists, force) == ~exists \/ force

Ensure ==
    /\ pc = "m_ensure"
    /\ IF MayOverwrite(Exists(dest), opt.force)
       THEN pc' = "m_extract" /\ UNCHANGED result
       ELSE pc' = "m_exit"
            /\ result' = Res(FALSE, "ensure", "this could overwrite files, use --force if you're sure")
    /\ UNCHANGED <<upstream, source_path, dest, dest0, tmp, storeVars, walkVars, mainVars>>

\* main.rs:84-85: the revision is resolved and the files are extracted onto
\* local_path; what a failing extraction wrote stays.
ExtractFiles ==
    /\ pc = "m_extract"
    /\ \E fault \in 0..Cardinality(RelPaths) :
          LET r == extract(upstream, opt.upstream_path, dest, fault)
          IN  /\ dest' = r.fs
              /\ IF r.ok /\ fault = 0
                 THEN IF opt.cmd = "add"
                      THEN pc' = "m_register" /\ UNCHANGED result
                      ELSE pc' = "m_exit" /\ result' = Res(TRUE, "none", "none")
                 ELSE pc' = "m_exit" /\ result' = Res(FALSE, "main-extract", "failed to extract files")
    /\ UNCHANGED <<upstream, source_path, dest0, tmp, storeVars, walkVars, mainVars>>

\* main.rs:87-89: add registers what it extracted.
RegisterCopy ==
    /\ pc = "m_register"
    /\ \E fault \in 0..3 :
          LET r == register(store, opt.local_path, Exists(dest), opt.url,
                            revparse_single(opt.rev), opt.upstream_path, fault)
          IN  /\ store' = r.cfg
              /\ result' = Res(r.ok, IF r.ok THEN "none" ELSE "register", r.err)
    /\ pc' = "m_exit"
    /\ UNCHANGED <<upstream, source_path, dest, dest0, tmp, store0, registered, walkVars, mainVars>>

\* The upstream paths of the commands: a tree, and a path that is a tree, a
\* blob or missing, as the upstream has it.
CommandSources == {<<"lib">>, <<"lib", "d">>}
LocalPaths == {"vendor/util", "../out"}

\* The records .gitcopies can hold for vendor/util when a command starts:
\* complete ones as add writes them, one whose upstream path starts with "~",
\* one without a revision, none.
RecordOf(url, rev, sp) ==
    [k \in StoreKeys |->
        IF k = NormalizeName(KeyName(<<"vendor/util">>, "url")) THEN url
        ELSE IF k = NormalizeName(KeyName(<<"vendor/util">>, "rev")) THEN rev
        ELSE IF k = NormalizeName(KeyName(<<"vendor/util">>, "sourcePath")) THEN sp
        ELSE Unset]

Opts ==
    [cmd : {"fetch", "add"}, local_path : LocalPaths, force : BOOLEAN,
     url : {<<"u1">>}, rev : {<<"r1">>}, upstream_path : CommandSources]
    \cup
    [cmd : {"shell"}, local_path : LocalPaths, force : {FALSE},
     url : {Unset}, rev : {Unset}, upstream_path : {Unset}]
    \cup
    [cmd : {"rebase"}, local_path : LocalPaths, force : {FALSE},
     url : {Unset}, rev : {<<"r2">>}, upstream_path : {Unset}]

InitialStores(o) ==
    IF o.cmd \in {"fetch", "add"} \/ o.local_path # "vendor/util" THEN {EmptyStore}
    ELSE {RecordOf(<<"u1">>, <<"id1">>, sp) : sp \in CommandSources}
            \cup {RecordOf(<<"u1">>, <<"id1">>, <<"~", "lib">>)}
            \cup {RecordOf(<<"u1">>, Unset, <<"lib">>), EmptyStore}

Init ==
    /\ pc = "m_start"
    /\ opt \in Opts
    /\ upstream \in UpstreamTrees
    /\ source_path = <<"lib">>
    /\ dest \in AllFs
    /\ dest0 = dest
    /\ tmp = NoDir
    /\ store \in InitialStores(opt)
    /\ store0 = store
    /\ registered = [exact |-> FALSE, recs |-> [rel \in Rels |-> NoRecord]]
    /\ walk = << >>
    /\ written = {}
    /\ skipped = {}
    /\ result = [op |-> opt.cmd, ok |-> TRUE, stage |-> "none", err |-> "none"]
    /\ conf = NoRecord
    /\ cache = NoMirrors
    /\ remote = FALSE
    /\ invoked = FALSE
    /\ copied = FALSE
    /\ edited = FALSE
    /\ exit_status = "none"

Next ==
    \/ GetConf \/ TempDir \/ InitRepo \/ FetchSource \/ ExtractPristine \/ CommitPristine
    \/ CopyInStep \/ ShellCallback \/ RebaseCallback \/ Spawn \/ ShellExit \/ Called
    \/ CopyOutStep \/ Return \/ AfterSession
    \/ FetchRepo \/ Ensure \/ ExtractFiles \/ RegisterCopy

Spec == Init /\ [][Next]_vars

\* C1: if the callback returns an error (or panics), the copy-out loop is never
\* entered and the destination is as it was before the call.
C1_Atomicity ==
    (~result.ok /\ result.stage \in {"callback", "panic"}) =>
        /\ ~copied
        /\ dest = dest0

\* The callback changed the scratch tree and then returned an error, on a
\* destination that held something.
C1_Witness ==
    /\ pc = "m_exit"
    /\ ~result.ok
    /\ result.stage = "callback"
    /\ invoked
    /\ edited
    /\ PathsOf(dest0) # {}

\* C2 as stated: a session whose operation changes nothing and succeeds leaves
\* the destination's paths and contents as they were, whatever the destination
\* held, also when a file of the upstream subtree was deleted locally.
C2_AsStated ==
    (pc = "m_exit" /\ opt.cmd = "shell" /\ result.ok /\ ~edited) => dest = dest0

\* C3: if a step before the callback fails, the callback is never called, the
\* copy-out loop is never entered and the destination is as it was.
C3_FailureBeforeOperation ==
    (~result.ok /\ result.stage \in {"tempdir", "init", "fetch", "extract", "commit", "copy-in"}) =>
        /\ ~invoked
        /\ ~copied
        /\ dest = dest0

\* The copy-in failed on a destination that held something, after the pristine
\* tree had been extracted.
C3_Witness ==
    /\ pc = "m_exit"
    /\ ~result.ok
    /\ result.stage = "copy-in"
    /\ PathsOf(dest0) # {}
    /\ SubtreePaths(upstream, conf.source_path) # {}

\* C4 as stated: when the interactive subprocess exits with a non-zero status
\* the command fails, the copy-out loop is never entered and the destination
\* is as it was.
C4_AsStated ==
    exit_status = "nonzero" =>
        /\ ~copied
        /\ dest = dest0
        /\ (pc = "m_exit" => ~result.ok)

\* C10 as stated: add, shell and rebase on an existing destination outside the
\* working directory fail and have no side effect: the store and the files at
\* the destination are as they were.
C10_AsStated ==
    (opt.cmd \in {"add", "shell", "rebase"} /\ opt.local_path = "../out" /\ Exists(dest0)) =>
        /\ dest = dest0
        /\ store = store0
        /\ (pc = "m_exit" => ~result.ok)

\* C12: with_repo never returns while its scratch directory exists: whenever
\* control is back in main, after a failure of a step before the callback, of
\* the callback, of the copy-out or after success, the directory is removed;
\* a scratch directory exists only while with_repo is running.
C12_ScratchCleanup ==
    /\ pc \in {"m_after", "m_exit"} => tmp = NoDir
    /\ tmp # NoDir => pc \in {"w_init", "w_fetch", "w_extract", "w_commit", "w_copyin",
                              "w_callback", "spawn", "shell", "w_called", "w_copyout",
                              "w_return"}

\* The copy-out failed after the subprocess had changed a scratch tree that
\* held files, and the call returned.
C12_Witness ==
    /\ pc = "m_exit"
    /\ ~result.ok
    /\ result.stage = "copy-out"
    /\ edited
    /\ PathsOf(dest) # {}
    /\ tmp = NoDir

\* C13: when fetch or add is given a local path that exists and no --force,
\* the command fails before it extracts and before it registers: neither step
\* is reached, and the files at the local path and the store are as they were.
C13_NoOverwriteWithoutForce ==
    (opt.cmd \in {"fetch", "add"} /\ Exists(dest0) /\ ~opt.force) =>
        /\ pc \notin {"m_extract", "m_register"}
        /\ dest = dest0
        /\ store = store0
        /\ (pc = "m_exit" => ~result.ok)

\* add without --force on a local path that holds files, stopped by the
\* ensure! after the mirror was fetched, the upstream having files to write.
C13_Witness ==
    /\ pc = "m_exit"
    /\ opt.cmd = "add"
    /\ ~opt.force
    /\ PathsOf(dest0) # {}
    /\ result.stage = "ensure"
    /\ cache[MirrorPath(opt.url)].state = "mirror"
    /\ SubtreePaths(upstream, opt.upstream_path) # {}

\* The three entries of the record of vendor/util in a store.
RecordIn(cfg) ==
    [f \in Fields |-> cfg[NormalizeName(KeyName(<<"vendor/util">>, f))]]

\* with_repo has returned Ok to the rebase command.
SessionSucceeded ==
    pc = "m_after" \/ (pc = "m_exit" /\ result.stage \in {"none", "register"})

PristineNode(p) ==
    LET object == GetPath(upstream, conf.source_path)
    IN  IF object.kind = "tree"
        THEN NodeOf(GetPath(upstream, conf.source_path \o p))
        ELSE IF object.kind = "blob" /\ p = <<Last(conf.source_path)>>
        THEN FileNode(object.data)
        ELSE NoNode

\* C15: when the copy-in has succeeded and the callback is about to be called,
\* the scratch tree holds, at every relative path, what the destination holds
\* there if the destination has the path, and what the pristine tree holds
\* there otherwise.
C15_Overlay ==
    pc = "w_callback" =>
        \A p \in RelPaths :
            tmp[p] = (IF dest[p] # NoNode THEN dest[p] ELSE PristineNode(p))

\* A local file that differs from the pristine one at the same path, and a
\* pristine file in a directory the destination does not have.
C15_Witness ==
    /\ pc = "w_callback"
    /\ conf.source_path = <<"lib">>
    /\ dest[<<"a">>] = FileNode(1)
    /\ upstream[<<"lib", "a">>] = Blob(2)
    /\ dest[<<"d">>] = NoNode
    /\ upstream[<<"lib", "d", "a">>].kind = "blob"

\* C16 as stated: in the walk of a tree, a blob entry is written also when the
\* destination directory, or a directory on the file's path, does not exist:
\* unless a file is in the way of a directory or a directory in the way of the
\* file, the write of the next blob entry succeeds.
C16_AsStated ==
    (/\ pc = "x_walk"
     /\ walk # << >>
     /\ upstream[source_path \o Head(walk)].kind = "blob"
     /\ dest[Head(walk)] # DirNode
     /\ \A q \in FsPaths : (IsPrefix(q, Head(walk)) /\ q # Head(walk)) => dest[q].kind # "file")
    => ExtractEntry(upstream, source_path, dest, Head(walk)).ok

\* The place of an entry in the pre-order traversal.
Position(p) == CHOOSE i \in 1..Len(PreOrderAll) : PreOrderAll[i] = p

\* C17: once an entry of the walk has failed, the walk is over and extract has
\* returned an error; the entries written are exactly those before the failing
\* one in traversal order and they are on disk as the upstream has them; the
\* entries after it were not visited and the destination is as it was at
\* their paths.
C17_FailFast ==
    result.err = "walk" =>
        LET entries == SubtreePaths(upstream, source_path)
            failing == entries \ (written \cup skipped)
        IN  /\ pc = "x_done"
            /\ ~result.ok
            /\ walk = << >>
            /\ written \subseteq entries
            /\ skipped \subseteq entries
            /\ written \cap skipped = {}
            /\ Cardinality(failing) = 1
            /\ \A f \in failing :
                  /\ \A w \in written : Position(w) < Position(f)
                  /\ \A s \in skipped : Position(f) < Position(s)
            /\ \A w \in written : dest[w] = NodeOf(upstream[source_path \o w])
            /\ \A s \in skipped : dest[s] = dest0[s]

\* The walk failed at its second entry, a directory with a file of the
\* destination in its way: the first entry stays written, the third is not
\* visited.
C17_Witness ==
    /\ pc = "x_done"
    /\ result.err = "walk"
    /\ source_path = <<"lib">>
    /\ written = {<<"a">>}
    /\ skipped = {<<"d", "a">>}
    /\ dest0[<<"a">>] = NoNode
    /\ dest0[<<"d">>].kind = "file"
    /\ dest[<<"a">>] = NodeOf(upstream[<<"lib", "a">>])

====
